---- MODULE Spec2Model ----
(***************************************************************************)
(* A model of the thunderbolt authorization helper (src/auth.c): the       *)
(* command dispatch of main, the two commands authorize_device and         *)
(* auto_device, and the engine tb_device_authorize with its I/O helpers    *)
(* tb_verify_uid, tb_read_all, copy_key, tb_write_char and tb_close.       *)
(* Every system call is one step of a process; its outcome (success, a     *)
(* short count, EINTR, another errno) is chosen by the environment.        *)
(***************************************************************************)
EXTENDS Integers, Sequences, FiniteSets, TLC

(* ---------------------------- bounds ----------------------------------- *)

\* number of invocations of the program (runs of main) in one behaviour
MaxRuns == 2

\* how many system calls of one run the environment may interrupt (EINTR)
MaxEintr == 1

\* longest device uid
MaxUidLen == 1

\* length of the key, sizeof (buffer) in copy_key, scaled down
TB_KEY_CHARS == 2

(* --------------------------- constants --------------------------------- *)

\* the character codes '1' and '2'
Char1 == 49
Char2 == 50

EXIT_SUCCESS == 0
EXIT_FAILURE == 1

\* the value of tb_manager_get_security_level for each level: below 1 for
\* "none" (auth.c:247), the grant code '1' for "user" and the code '2' for
\* "secure" (auth.c:278, and auth.c:311 writes the value as the grant byte)
SecurityValue(level) ==
  CASE level = "none" -> 0
    [] level = "user" -> Char1
    [] level = "secure" -> Char2

Levels == {"none", "user", "secure"}

\* errno values of a failed system call, other than EINTR
Errnos == {"EIO", "ENOENT"}

\* GLib's g_io_error_from_errno: errno values without a code of their own
\* (EIO, ENODEV, 0, ...) become G_IO_ERROR_FAILED
g_io_error_from_errno(e) ==
  CASE e = "ENOENT" -> "G_IO_ERROR_NOT_FOUND"
    [] OTHER -> "G_IO_ERROR_FAILED"

\* a GError: NULL, or domain, code and the site that set it
NoError == [domain |-> "NULL", code |-> "NULL", site |-> "NULL"]
GIoError(code, site) == [domain |-> "G_IO_ERROR", code |-> code, site |-> site]

\* g_set_error: sets *error only while it is NULL
g_set_error(old, new) == IF old = NoError THEN new ELSE old

(* ------------------------- file descriptors ---------------------------- *)

\* descriptor numbers a process can get; 0, 1 and 2 are the standard streams
FdRange == 3 .. 7

NoFds == [n \in FdRange |-> "free"]

\* open, openat and opendir return the lowest free descriptor number
LowestFree(t) ==
  CHOOSE n \in FdRange : t[n] = "free" /\ \A m \in FdRange : m < n => t[m] # "free"

\* close (n): releases n when it is open, fails with EBADF otherwise
CloseFd(t, n) == IF n \in FdRange THEN [t EXCEPT ![n] = "free"] ELSE t

FdIsOpen(t, n) == n \in FdRange /\ t[n] # "free"

(* ------------------------------ inputs --------------------------------- *)

RECURSIVE SeqsOf(_, _)
SeqsOf(S, n) ==
  IF n = 0 THEN {<<>>}
  ELSE LET shorter == SeqsOf(S, n - 1)
       IN  shorter \cup {Append(s, x) : s \in {t \in shorter : Len(t) = n - 1}, x \in S}

\* the uid of the device record: 1 .. MaxUidLen bytes
Uids == {s \in SeqsOf({65}, MaxUidLen) : Len(s) >= 1}

\* contents of the live unique_id attribute: up to one byte longer than a uid
LiveContents == SeqsOf({65, 66}, MaxUidLen + 1)

Procs == {1, 2}

VARIABLES
  procs,        \* the processes that run the program
  runs,         \* invocations of the program so far
  st,           \* st[p]: position and locals of process p
  uid,          \* device.uid
  mgrSecurity,  \* the level tb_manager_get_security_level reports
  devSecurity,  \* the level the device record itself reports
  status,       \* device.status
  stored,       \* the device as persisted by the external store
  hasKey,       \* the Key Store holds a key for uid
  authLog       \* the successful authorizations, oldest first

vars ==
  <<procs, runs, st, uid, mgrSecurity, devSecurity, status, stored, hasKey, authLog>>

shared == <<uid, mgrSecurity, devSecurity, procs>>

\* the locals of a process that has not started
Idle ==
  [pc |-> "idle", cmd |-> "", do_store |-> FALSE, do_auto |-> FALSE,
   in_store |-> FALSE, policy |-> "manual",
   security |-> 0, d |-> -1, fd |-> -1, keyfd |-> -1, from |-> -1,
   created |-> FALSE, ok |-> FALSE, error |-> NoError,
   nread |-> 0, nbyte |-> 0, avail |-> 0, n |-> 0,
   fds |-> NoFds, trace |-> <<>>, eintr |-> 0, res |-> -1, live |-> "unread",
   getuid |-> 0, geteuid |-> 0, found |-> FALSE, engine |-> FALSE]

Set(p, r) == st' = [st EXCEPT ![p] = r]

\* one call of the attempt: what was called, on what, how it ended, the
\* count it returned and the byte it carried
Ev(op, obj, result, count, data) ==
  [op |-> op, obj |-> obj, result |-> result, count |-> count, data |-> data]

Log(s, e) == Append(s.trace, e)

Init ==
  /\ procs = {1}
  /\ runs = 0
  /\ st = [p \in Procs |-> Idle]
  /\ uid \in Uids
  /\ mgrSecurity \in {SecurityValue(l) : l \in Levels}
  /\ devSecurity \in Levels
  /\ status = "connected"
  /\ stored = "absent"
  /\ hasKey = FALSE
  /\ authLog = <<>>

(* ------------------------------- main ---------------------------------- *)

\* a run that ends: the process is gone, its exit status res is left, and
\* (for the record) the command it ran, the device it looked up and what the
\* engine returned
Exit(s, res) ==
  [Idle EXCEPT !.pc = "exited", !.res = res, !.cmd = s.cmd, !.ok = s.ok,
               !.in_store = s.in_store, !.policy = s.policy,
               !.do_store = s.do_store, !.do_auto = s.do_auto,
               !.getuid = s.getuid, !.geteuid = s.geteuid,
               !.found = s.found, !.engine = s.engine]

\* the shell starts the program
Exec(p) ==
  /\ p \in procs
  /\ st[p].pc \in {"idle", "exited"}
  /\ runs < MaxRuns
  /\ runs' = runs + 1
  /\ \E ruid \in {0, 1000}, euid \in {0, 1000} :
       Set(p, [Idle EXCEPT !.pc = "main", !.getuid = ruid, !.geteuid = euid])
  /\ UNCHANGED <<shared, status, stored, hasKey, authLog>>

\* auth.c:490 testing the effective uid alone
MainChecks_EuidOnly(parse_ok, argc, ruid, euid) ==
  IF ~parse_ok THEN "parse"
  ELSE IF argc < 2 THEN "usage"
  ELSE IF euid # 0 THEN "notroot"
  ELSE "ok"

\* main, auth.c:478-494: the checks before a manager is created
MainChecks(parse_ok, argc, ruid, euid) ==
  IF ~parse_ok THEN "parse"
  ELSE IF argc < 2 THEN "usage"
  ELSE IF ruid # 0 \/ euid # 0 THEN "notroot"
  ELSE "ok"

\* main, auth.c:500-513: the command chosen by argv[1]
Dispatch(cmd) ==
  CASE cmd = "authorize" -> "authorize_device"
    [] cmd = "auto" -> "auto_device"
    [] OTHER -> "unknown"

Main(p) ==
  /\ p \in procs
  /\ st[p].pc = "main"
  /\ \E parse_ok \in BOOLEAN, argc \in {1, 2}, cmd \in {"authorize", "auto", "list"} :
       LET s == st[p]
           chk == MainChecks(parse_ok, argc, s.getuid, s.geteuid)
       IN  IF chk # "ok" THEN Set(p, Exit(s, EXIT_FAILURE))
           ELSE IF Dispatch(cmd) = "unknown" THEN Set(p, Exit(s, EXIT_FAILURE))
           ELSE Set(p, [s EXCEPT !.pc = Dispatch(cmd), !.cmd = cmd])
  /\ UNCHANGED <<shared, runs, status, stored, hasKey, authLog>>

\* tb_manager_lookup and the device it builds from the external store
LookupInStore == stored # "absent"
LookupPolicy == IF stored = "auto" THEN "auto" ELSE "manual"

\* authorize_device, auth.c:337-364: up to the call of the engine. The options
\* --store and --auto are fixed by argv and first read at auth.c:372 and 378,
\* where AuthorizeReturn draws them.
AuthorizeDevice(p) ==
  /\ p \in procs
  /\ st[p].pc = "authorize_device"
  /\ \E parse_ok \in BOOLEAN, argc \in {1, 2}, found \in BOOLEAN :
       LET s == st[p]
       IN  IF ~parse_ok \/ argc < 2 \/ ~found THEN Set(p, Exit(s, EXIT_FAILURE))
           ELSE Set(p, [s EXCEPT !.pc = "tb_device_authorize", !.found = TRUE,
                                 !.in_store = LookupInStore, !.policy = LookupPolicy])
  /\ UNCHANGED <<shared, runs, status, stored, hasKey, authLog>>

\* auth.c:431 left out: every stored device is authorized
ShouldAutoAuthorize_AnyStored(in_store, policy) == in_store

\* auto_device, auth.c:426-435: whether the engine is to run
ShouldAutoAuthorize(in_store, policy) ==
  IF ~in_store THEN FALSE
  ELSE IF policy # "auto" THEN FALSE
  ELSE TRUE

\* auto_device, auth.c:400-437: up to the call of the engine
AutoDevice(p) ==
  /\ p \in procs
  /\ st[p].pc = "auto_device"
  /\ \E parse_ok \in BOOLEAN, argc \in {1, 2}, found \in BOOLEAN :
       LET s == [st[p] EXCEPT !.found = TRUE,
                              !.in_store = LookupInStore, !.policy = LookupPolicy]
       IN  IF ~parse_ok \/ argc < 2 \/ ~found THEN Set(p, Exit(st[p], EXIT_FAILURE))
           ELSE IF ~ShouldAutoAuthorize(s.in_store, s.policy) THEN Set(p, Exit(s, EXIT_SUCCESS))
           ELSE Set(p, [s EXCEPT !.pc = "tb_device_authorize"])
  /\ UNCHANGED <<shared, runs, status, stored, hasKey, authLog>>

(* ------------------------ tb_device_authorize -------------------------- *)

\* device.status while the engine runs, and once it has returned ok
StatusOnEntry == "authorizing"
StatusOnReturn(ok) == IF ok THEN "authorized" ELSE "autherror"

\* the last byte the attempt wrote to the authorized attribute, 0 if none
RECURSIVE GrantByte(_)
GrantByte(tr) ==
  IF tr = <<>> THEN 0
  ELSE LET e == tr[Len(tr)]
       IN  IF e.op = "write" /\ e.obj = "authorized" /\ e.result = "ok" THEN e.data
           ELSE GrantByte(SubSeq(tr, 1, Len(tr) - 1))

\* return from tb_device_authorize: g_autoptr(DIR) closes d, the caller goes on
Return(p, s, ok) ==
  /\ Set(p, [s EXCEPT !.ok = ok,
                      !.fds = IF s.d # -1 THEN CloseFd(s.fds, s.d) ELSE s.fds,
                      !.pc = IF s.cmd = "authorize" THEN "authorize_ret" ELSE "auto_ret"])
  /\ status' = StatusOnReturn(ok)
  /\ authLog' = IF ok
                THEN Append(authLog, [security |-> mgrSecurity, created |-> s.created,
                                      byte |-> GrantByte(s.trace)])
                ELSE authLog

\* auth.c:247 with the bound off by one
NothingToDo_OffByOne(security) == security < 0

\* auth.c:247 also returning at once for a device that is authorized already
NothingToDo_IfAuthorized(security) == security < 1 \/ status = "authorized"

\* auth.c:247: nothing to do below the first level
NothingToDo(security) == security < 1

\* auth.c:245-249
TbDeviceAuthorize(p) ==
  /\ p \in procs
  /\ st[p].pc = "tb_device_authorize"
  /\ LET s == [st[p] EXCEPT !.security = mgrSecurity, !.engine = TRUE]
     IN  IF NothingToDo(s.security)
         THEN Return(p, s, TRUE)
         ELSE /\ Set(p, [s EXCEPT !.pc = "opendir"])
              /\ status' = StatusOnEntry
              /\ authLog' = authLog
  /\ UNCHANGED <<shared, runs, stored, hasKey>>

\* auth.c:254-260
Opendir(p) ==
  /\ p \in procs
  /\ st[p].pc = "opendir"
  /\ LET s == st[p]
     IN  \/ /\ Set(p, [s EXCEPT !.pc = "open_unique_id",
                                !.d = LowestFree(s.fds),
                                !.fds = [s.fds EXCEPT ![LowestFree(s.fds)] = "dir"],
                                !.trace = Log(s, Ev("opendir", "dir", "ok", 0, 0))])
            /\ UNCHANGED <<status, authLog>>
         \/ \E e \in Errnos :
              Return(p, [s EXCEPT !.error = g_set_error(@, GIoError(g_io_error_from_errno(e), "opendir")),
                                  !.trace = Log(s, Ev("opendir", "dir", e, 0, 0))], FALSE)
  /\ UNCHANGED <<shared, runs, stored, hasKey>>

\* tb_openat, auth.c:83-101, on attribute name: the descriptor, or -1 and the error
\* next is the position after a successful open
TbOpenat(p, s, name, fdvar, next) ==
  \/ /\ Set(p, [s EXCEPT !.pc = next,
                         ![fdvar] = LowestFree(s.fds),
                         !.fds = [s.fds EXCEPT ![LowestFree(s.fds)] = name],
                         !.trace = Log(s, Ev("open", name, "ok", 0, 0))])
     /\ UNCHANGED <<status, authLog>>
  \/ \E e \in Errnos :
       Return(p, [s EXCEPT ![fdvar] = -1,
                           !.error = g_set_error(@, GIoError(g_io_error_from_errno(e), "tb_openat")),
                           !.trace = Log(s, Ev("open", name, e, 0, 0))], FALSE)

\* auth.c:265-267
OpenUniqueId(p) ==
  /\ p \in procs
  /\ st[p].pc = "open_unique_id"
  /\ TbOpenat(p, st[p], "unique_id", "fd", "verify_uid")
  /\ UNCHANGED <<shared, runs, stored, hasKey>>

\* how the live unique_id relates to uid
LiveClass(u, live) ==
  IF live = u THEN "equal"
  ELSE IF Len(live) < Len(u) THEN "shorter"
  ELSE IF Len(live) = Len(u) THEN "differs"
  ELSE IF SubSeq(live, 1, Len(u)) = u THEN "longer_prefix"
  ELSE "longer_differs"

\* tb_verify_uid without the memcmp of auth.c:126
TbVerifyUid_NoCompare(u, n, buffer) == IF Len(u) # n THEN "short" ELSE "ok"

\* tb_verify_uid, auth.c:120-137, once read has returned n >= 0 bytes in buffer
TbVerifyUid(u, n, buffer) ==
  IF Len(u) # n THEN "short"
  ELSE IF buffer # u THEN "mismatch"
  ELSE "ok"

\* auth.c:269, tb_verify_uid auth.c:103-138
VerifyUid(p) ==
  /\ p \in procs
  /\ st[p].pc = "verify_uid"
  /\ LET s == st[p]
     IN  \/ /\ s.eintr < MaxEintr
            /\ Set(p, [s EXCEPT !.eintr = @ + 1,
                                !.trace = Log(s, Ev("read", "unique_id", "EINTR", -1, 0))])
         \/ \E e \in Errnos :
              Set(p, [s EXCEPT !.pc = "close_uid_failed",
                               !.error = g_set_error(@, GIoError(g_io_error_from_errno(e), "verify_read")),
                               !.trace = Log(s, Ev("read", "unique_id", e, -1, 0))])
         \/ \E live \in LiveContents :
              LET most == IF Len(live) < Len(uid) THEN Len(live) ELSE Len(uid)
              IN  \E n \in (IF most = 0 THEN {0} ELSE 1 .. most) :
                    LET v == TbVerifyUid(uid, n, SubSeq(live, 1, n))
                        full == IF n = most THEN "ok" ELSE "partial"
                        s1 == [s EXCEPT !.live = LiveClass(uid, live),
                                        !.trace = Log(s, Ev("read", "unique_id", full, n, 0))]
                    IN  IF v = "ok"
                        THEN Set(p, [s1 EXCEPT !.pc = "close_uid"])
                        ELSE Set(p, [s1 EXCEPT !.pc = "close_uid_failed",
                                               !.error = g_set_error(@, GIoError("G_IO_ERROR_FAILED", v))])
  /\ UNCHANGED <<shared, runs, status, stored, hasKey, authLog>>

\* close (n), logged with what n referred to
Close(s, n) ==
  [s EXCEPT !.fds = CloseFd(s.fds, n),
            !.trace = Log(s, Ev("close", IF FdIsOpen(s.fds, n) THEN s.fds[n] ELSE "free",
                                IF FdIsOpen(s.fds, n) THEN "ok" ELSE "EBADF", n, 0))]

\* auth.c:270-274
CloseUidFailed(p) ==
  /\ p \in procs
  /\ st[p].pc = "close_uid_failed"
  /\ Return(p, Close(st[p], st[p].fd), FALSE)
  /\ UNCHANGED <<shared, runs, stored, hasKey>>

\* auth.c:278 comparing with the number 2 instead of the character '2'
IsSecure_Ordinal(security) == security = 2

\* auth.c:278 taking every level that needs authorization
IsSecure_AnyLevel(security) == security >= Char1

\* auth.c:278: the level that needs a key
IsSecure(security) == security = Char2

\* auth.c:276-278
CloseUid(p) ==
  /\ p \in procs
  /\ st[p].pc = "close_uid"
  /\ LET s == Close(st[p], st[p].fd)
     IN  Set(p, [s EXCEPT !.pc = IF IsSecure(s.security) THEN "ensure_key" ELSE "open_authorized"])
  /\ UNCHANGED <<shared, runs, status, stored, hasKey, authLog>>

\* tb_manager_ensure_key (mgr, dev, FALSE, &created, error): the key of uid,
\* made now if the Key Store has none
EnsureKeyCreated(has) == ~has

\* auth.c:283-285
EnsureKey(p) ==
  /\ p \in procs
  /\ st[p].pc = "ensure_key"
  /\ LET s == st[p]
     IN  \/ /\ Set(p, [s EXCEPT !.pc = "open_key",
                                !.created = EnsureKeyCreated(hasKey),
                                !.trace = Log(s, Ev("ensure_key", "store", "ok", 0, 0))])
            /\ hasKey' = TRUE
            /\ UNCHANGED <<status, authLog>>
         \/ /\ Return(p, [s EXCEPT !.error = g_set_error(@, [domain |-> "STORE", code |-> "FAILED",
                                                             site |-> "ensure_key"]),
                                   !.trace = Log(s, Ev("ensure_key", "store", "failed", 0, 0))], FALSE)
            /\ hasKey' = hasKey
  /\ UNCHANGED <<shared, runs, stored>>

\* auth.c:287-289
OpenKey(p) ==
  /\ p \in procs
  /\ st[p].pc = "open_key"
  /\ TbOpenat(p, st[p], "key", "keyfd", "copy_key")
  /\ UNCHANGED <<shared, runs, stored, hasKey>>

\* copy_key, auth.c:193-202: open the key file; it holds avail bytes
CopyKeyOpen(p) ==
  /\ p \in procs
  /\ st[p].pc = "copy_key"
  /\ LET s == st[p]
     IN  \/ \E len \in 0 .. TB_KEY_CHARS :
              Set(p, [s EXCEPT !.pc = "tb_read_all",
                               !.from = LowestFree(s.fds),
                               !.fds = [s.fds EXCEPT ![LowestFree(s.fds)] = "keyfile"],
                               !.nread = 0, !.nbyte = TB_KEY_CHARS, !.avail = len,
                               !.trace = Log(s, Ev("open", "keyfile", "ok", 0, 0))])
         \/ \E e \in Errnos :
              Set(p, [s EXCEPT !.pc = "copy_key_failed",
                               !.from = -1,
                               !.error = g_set_error(@, GIoError(g_io_error_from_errno(e), "copy_key_open")),
                               !.trace = Log(s, Ev("open", "keyfile", e, 0, 0))])
  /\ UNCHANGED <<shared, runs, status, stored, hasKey, authLog>>

\* auth.c:210 left out: a short key is written as it is
CopyKeyRead_AcceptShort(n) == IF n < 0 THEN "error" ELSE "ok"

\* copy_key, auth.c:206-214: what it makes of tb_read_all's result n
CopyKeyRead(n) ==
  IF n < 0 THEN "error"
  ELSE IF n # TB_KEY_CHARS THEN "short"
  ELSE "ok"

\* copy_key after tb_read_all has returned n
AfterReadAll(s, n) ==
  IF CopyKeyRead(n) = "ok" THEN [s EXCEPT !.pc = "copy_key_write", !.n = n]
  ELSE IF CopyKeyRead(n) = "short"
  THEN [s EXCEPT !.pc = "copy_key_failed", !.n = n,
                 !.error = g_set_error(@, GIoError("G_IO_ERROR_FAILED", "copy_key_short"))]
  ELSE [s EXCEPT !.pc = "copy_key_failed", !.n = n]

\* auth.c:168 returning the count of the last read
TbReadAllAtEof_LastCount(nread) == 0

\* tb_read_all, auth.c:166-169: the result when read returns 0
TbReadAllAtEof(nread) == nread

\* auth.c:175 left out: the length still asked for never shrinks
NbyteAfterRead_Stuck(nbyte, n) == nbyte

\* tb_read_all, auth.c:175: the length still to read after a read of n bytes
NbyteAfterRead(nbyte, n) == nbyte - n

\* tb_read_all, auth.c:146-181: one read of the loop
TbReadAll(p) ==
  /\ p \in procs
  /\ st[p].pc = "tb_read_all"
  /\ LET s == st[p]
     IN  \/ /\ s.eintr < MaxEintr
            /\ Set(p, [s EXCEPT !.eintr = @ + 1,
                                !.trace = Log(s, Ev("read", "keyfile", "EINTR", -1, 0))])
         \/ \E e \in Errnos :
              Set(p, AfterReadAll([s EXCEPT !.error = g_set_error(@, GIoError(g_io_error_from_errno(e), "tb_read_all")),
                                            !.trace = Log(s, Ev("read", "keyfile", e, -1, 0))], -1))
         \/ /\ s.avail = 0
            /\ Set(p, AfterReadAll([s EXCEPT !.trace = Log(s, Ev("read", "keyfile", "ok", 0, 0))],
                                   TbReadAllAtEof(s.nread)))
         \/ \E n \in 1 .. (IF s.avail < s.nbyte THEN s.avail ELSE s.nbyte) :
              LET s1 == [s EXCEPT !.nread = @ + n, !.nbyte = NbyteAfterRead(@, n), !.avail = @ - n,
                                  !.trace = Log(s, Ev("read", "keyfile", "ok", n, 0))]
              IN  IF s1.nbyte > 0 THEN Set(p, s1) ELSE Set(p, AfterReadAll(s1, s1.nread))
  /\ UNCHANGED <<shared, runs, status, stored, hasKey, authLog>>

\* auth.c:220 testing only that the write reported no error
CopyKeyWritten_AnyCount(k, n) == k >= 0

\* copy_key, auth.c:220: the write of n bytes returned k
CopyKeyWritten(k, n) == k = n

\* auth.c:218 going round again after any failed write
CopyKeyRetry_AnyError(k, errsv) == k < 0

\* copy_key, auth.c:216-218: whether the write that returned k, with errno
\* errsv, is issued again
CopyKeyRetry(k, errsv) == k < 0 /\ errsv = "EINTR"

\* copy_key, auth.c:216-229: the write of the key to the key attribute
CopyKeyWrite(p) ==
  /\ p \in procs
  /\ st[p].pc = "copy_key_write"
  /\ LET s == st[p]
     IN  \/ \E e \in Errnos \cup {"EINTR"} :
              /\ e = "EINTR" => s.eintr < MaxEintr
              /\ IF CopyKeyRetry(-1, e)
                 THEN Set(p, [s EXCEPT !.eintr = IF e = "EINTR" THEN @ + 1 ELSE @,
                                       !.trace = Log(s, Ev("write", "key", e, -1, 0))])
                 ELSE Set(p, [s EXCEPT !.pc = "copy_key_failed",
                                       !.error = g_set_error(@, GIoError(g_io_error_from_errno(e), "copy_key_write")),
                                       !.trace = Log(s, Ev("write", "key", e, -1, 0))])
         \/ \E k \in 0 .. s.n :
              /\ IF CopyKeyWritten(k, s.n)
                 THEN Set(p, [s EXCEPT !.pc = "close_key",
                                       !.trace = Log(s, Ev("write", "key", "ok", k, 0))])
                 ELSE \E stale \in Errnos \cup {"0"} :
                        Set(p, [s EXCEPT !.pc = "copy_key_failed",
                                         !.error = g_set_error(@, GIoError(g_io_error_from_errno(stale), "copy_key_write")),
                                         !.trace = Log(s, Ev("write", "key", "partial", k, 0))])
  /\ UNCHANGED <<shared, runs, status, stored, hasKey, authLog>>

\* auth.c:292-296: copy_key failed
CopyKeyFailed(p) ==
  /\ p \in procs
  /\ st[p].pc = "copy_key_failed"
  /\ Return(p, Close(st[p], st[p].fd), FALSE)
  /\ UNCHANGED <<shared, runs, stored, hasKey>>

\* tb_close, auth.c:44-57: the descriptor is released whatever close reports
TbClose(s, n, result) ==
  [s EXCEPT !.fds = CloseFd(s.fds, n),
            !.trace = Log(s, Ev("close", IF FdIsOpen(s.fds, n) THEN s.fds[n] ELSE "free", result, n, 0)),
            !.error = IF result = "ok" THEN @
                      ELSE g_set_error(@, GIoError(g_io_error_from_errno(result), "tb_close"))]

\* auth.c:302-303 left out
GrantFor_NoDowngrade(security, created) == security

\* auth.c:302-303: a key made in this attempt lowers the grant to '1'
GrantFor(security, created) == IF created THEN Char1 ELSE security

\* auth.c:298-304
CloseKey(p) ==
  /\ p \in procs
  /\ st[p].pc = "close_key"
  /\ LET s == st[p]
     IN  \/ /\ Set(p, [TbClose(s, s.keyfd, "ok") EXCEPT !.pc = "open_authorized",
                                                        !.security = GrantFor(s.security, s.created)])
            /\ UNCHANGED <<status, authLog>>
         \/ \E e \in Errnos : Return(p, TbClose(s, s.keyfd, e), FALSE)
  /\ UNCHANGED <<shared, runs, stored, hasKey>>

\* auth.c:306-309
OpenAuthorized(p) ==
  /\ p \in procs
  /\ st[p].pc = "open_authorized"
  /\ TbOpenat(p, st[p], "authorized", "fd", "write_authorized")
  /\ UNCHANGED <<shared, runs, stored, hasKey>>

\* auth.c:80 taking a write of no byte for a success
TbWriteChar_ZeroOk(n) == n >= 0

\* tb_write_char, auth.c:80: the result for a write that returned n
TbWriteChar(n) == n > 0

\* the char a value is passed as
ToChar(v) == v % 256

\* auth.c:311, tb_write_char auth.c:59-81
WriteAuthorized(p) ==
  /\ p \in procs
  /\ st[p].pc = "write_authorized"
  /\ LET s == st[p]
         next(n) == IF TbWriteChar(n) THEN "close_authorized" ELSE "close_authorized_failed"
     IN  \/ /\ s.eintr < MaxEintr
            /\ Set(p, [s EXCEPT !.eintr = @ + 1,
                                !.trace = Log(s, Ev("write", "authorized", "EINTR", -1, 0))])
         \/ \E e \in Errnos :
              /\ Set(p, [s EXCEPT !.pc = next(-1),
                                  !.error = g_set_error(@, GIoError(g_io_error_from_errno(e), "tb_write_char")),
                                  !.trace = Log(s, Ev("write", "authorized", e, -1, 0))])
         \/ /\ Set(p, [s EXCEPT !.pc = next(0),
                                !.trace = Log(s, Ev("write", "authorized", "partial", 0, 0))])
         \/ /\ Set(p, [s EXCEPT !.pc = next(1),
                                !.trace = Log(s, Ev("write", "authorized", "ok", 1, ToChar(s.security)))])
  /\ UNCHANGED <<shared, runs, status, stored, hasKey, authLog>>

\* auth.c:312-316
CloseAuthorizedFailed(p) ==
  /\ p \in procs
  /\ st[p].pc = "close_authorized_failed"
  /\ Return(p, Close(st[p], st[p].fd), FALSE)
  /\ UNCHANGED <<shared, runs, stored, hasKey>>

\* auth.c:318
CloseAuthorized(p) ==
  /\ p \in procs
  /\ st[p].pc = "close_authorized"
  /\ LET s == st[p]
     IN  \/ Return(p, TbClose(s, s.fd, "ok"), TRUE)
         \/ \E e \in Errnos : Return(p, TbClose(s, s.fd, e), FALSE)
  /\ UNCHANGED <<shared, runs, stored, hasKey>>

(* ----------------------- after the engine returned --------------------- *)

\* g_printerr ("... %s [%d]", error->message, error->code) with error NULL
\* reads through a null pointer: the process dies of SIGSEGV
Report(s) == IF s.error = NoError THEN 128 + 11 ELSE EXIT_FAILURE

\* auth.c:374 left out: --auto sets the policy but does not ask for the store
ApplyAuto_NoStore(s) == IF s.do_auto THEN [s EXCEPT !.policy = "auto"] ELSE s

\* auth.c:372-376: --auto implies --store and sets the policy
ApplyAuto(s) == IF s.do_auto THEN [s EXCEPT !.do_store = TRUE, !.policy = "auto"] ELSE s

\* authorize_device, auth.c:366-388
AuthorizeReturn(p) ==
  /\ p \in procs
  /\ st[p].pc = "authorize_ret"
  /\ IF ~st[p].ok
     THEN Set(p, Exit(st[p], Report(st[p]))) /\ stored' = stored
     ELSE \E store \in BOOLEAN, auto \in BOOLEAN :
            LET s == ApplyAuto([st[p] EXCEPT !.do_store = store, !.do_auto = auto])
            IN  IF s.do_store
                THEN \/ /\ stored' = s.policy
                        /\ Set(p, Exit([s EXCEPT !.in_store = TRUE], EXIT_SUCCESS))
                     \/ /\ stored' = stored
                        /\ Set(p, Exit(s, EXIT_FAILURE))
                ELSE Set(p, Exit(s, EXIT_SUCCESS)) /\ stored' = stored
  /\ UNCHANGED <<shared, runs, status, hasKey, authLog>>

\* auto_device, auth.c:439-445
AutoReturn(p) ==
  /\ p \in procs
  /\ st[p].pc = "auto_ret"
  /\ Set(p, Exit(st[p], IF st[p].ok THEN EXIT_SUCCESS ELSE Report(st[p])))
  /\ UNCHANGED <<shared, runs, status, stored, hasKey, authLog>>

Next ==
  \E p \in Procs :
    \/ Exec(p)
    \/ Main(p)
    \/ AuthorizeDevice(p)
    \/ AutoDevice(p)
    \/ TbDeviceAuthorize(p)
    \/ Opendir(p)
    \/ OpenUniqueId(p)
    \/ VerifyUid(p)
    \/ CloseUidFailed(p)
    \/ CloseUid(p)
    \/ EnsureKey(p)
    \/ OpenKey(p)
    \/ CopyKeyOpen(p)
    \/ TbReadAll(p)
    \/ CopyKeyWrite(p)
    \/ CopyKeyFailed(p)
    \/ CloseKey(p)
    \/ OpenAuthorized(p)
    \/ WriteAuthorized(p)
    \/ CloseAuthorizedFailed(p)
    \/ CloseAuthorized(p)
    \/ AuthorizeReturn(p)
    \/ AutoReturn(p)

Spec == Init /\ [][Next]_vars

\* the steps a started process takes by itself, from main to its exit
Run(p) ==
  \/ Main(p) \/ AuthorizeDevice(p) \/ AutoDevice(p) \/ TbDeviceAuthorize(p)
  \/ Opendir(p) \/ OpenUniqueId(p) \/ VerifyUid(p) \/ CloseUidFailed(p)
  \/ CloseUid(p) \/ EnsureKey(p) \/ OpenKey(p) \/ CopyKeyOpen(p) \/ TbReadAll(p)
  \/ CopyKeyWrite(p) \/ CopyKeyFailed(p) \/ CloseKey(p) \/ OpenAuthorized(p)
  \/ WriteAuthorized(p) \/ CloseAuthorizedFailed(p) \/ CloseAuthorized(p)
  \/ AuthorizeReturn(p) \/ AutoReturn(p)

\* one invocation to follow, of any command, at any level, for a device the
\* external store and the Key Store may or may not hold already
InitOne ==
  /\ procs = {1}
  /\ runs = MaxRuns - 1
  /\ st = [p \in Procs |-> Idle]
  /\ uid \in Uids
  /\ devSecurity \in Levels
  /\ mgrSecurity = SecurityValue(devSecurity)
  /\ status = "connected"
  /\ stored \in {"absent", "auto"}
  /\ hasKey \in BOOLEAN
  /\ authLog = <<>>

\* a started process is scheduled until it exits, and every system call it
\* makes returns; a call is interrupted at most MaxEintr times in an attempt
SpecFair == InitOne /\ [][Next]_vars /\ \A p \in Procs : WF_vars(Run(p))

\* two invocations of the program alive at once, for the one device, on a
\* Secure host whose Key Store already holds the device's key: nothing in
\* main or in tb_device_authorize takes a lock or waits for another process
InitConc ==
  /\ procs = {1, 2}
  /\ runs = 0
  /\ st = [p \in Procs |-> Idle]
  /\ uid \in Uids
  /\ mgrSecurity = SecurityValue("secure")
  /\ devSecurity = "secure"
  /\ status = "connected"
  /\ stored = "absent"
  /\ hasKey = TRUE
  /\ authLog = <<>>

SpecConc == InitConc /\ [][Next]_vars

(* ----------------------------- properties ------------------------------ *)

None == SecurityValue("none")
User == SecurityValue("user")
Secure == SecurityValue("secure")

\* the engine has returned to the command that called it; st[p].ok is its result
Returned(p) == st[p].pc \in {"authorize_ret", "auto_ret"}

\* the trace holds a call on one of the objects: an attribute, the
\* directory, the key file or the Key Store
Touches(tr, objs) == \E i \in 1 .. Len(tr) : tr[i].obj \in objs

\* every call of the trace did all it was asked to
AllOk(tr) == \A i \in 1 .. Len(tr) : tr[i].result = "ok"

\* the writes that reached the authorized attribute
Grants(tr) ==
  {i \in 1 .. Len(tr) : tr[i].op = "write" /\ tr[i].obj = "authorized" /\ tr[i].result = "ok"}

\* C1 as stated: whenever the live unique_id is not byte-exactly device.uid
\* (other bytes, shorter, or longer, uid being a proper prefix included), the
\* attempt fails and neither key nor authorized is opened or written.
C1_AsStated ==
  \A p \in procs :
    st[p].live \in {"differs", "shorter", "longer_prefix", "longer_differs"} =>
      /\ ~Touches(st[p].trace, {"key", "authorized"})
      /\ Returned(p) => ~st[p].ok

\* C1 (amended): in an attempt that reads unique_id, when the Len(uid) bytes
\* read are not device.uid (the live value is shorter than uid, or its first
\* Len(uid) bytes differ from it), the attempt fails and neither key nor
\* authorized is opened or written. A live value that only continues after
\* uid is not covered: tb_verify_uid compares the first Len(uid) bytes.
C1_MismatchFails ==
  \A p \in procs :
    st[p].live \in {"differs", "shorter", "longer_differs"} =>
      /\ ~Touches(st[p].trace, {"key", "keyfile", "store", "authorized"})
      /\ st[p].pc \in {"close_uid_failed", "authorize_ret", "auto_ret"}
      /\ Returned(p) => ~st[p].ok

C1_Witness ==
  \E p \in procs : Returned(p) /\ ~st[p].ok /\ st[p].live = "longer_differs"

\* C2: in an attempt at level Secure, every write to authorized comes after
\* a write of the whole key to the key attribute and a successful close of
\* it, earlier in the same attempt.
C2_KeyBeforeGrant ==
  \A p \in procs :
    LET tr == st[p].trace
    IN  \A i \in 1 .. Len(tr) :
          (mgrSecurity = Secure /\ tr[i].op = "write" /\ tr[i].obj = "authorized") =>
            \E j \in 1 .. i, k \in 1 .. i :
              /\ j < k /\ k < i
              /\ tr[j].op = "write" /\ tr[j].obj = "key" /\ tr[j].result = "ok"
              /\ tr[j].count = TB_KEY_CHARS
              /\ tr[k].op = "close" /\ tr[k].obj = "key" /\ tr[k].result = "ok"

C2_Witness ==
  \E p \in procs : mgrSecurity = Secure /\ Returned(p) /\ st[p].ok /\ Grants(st[p].trace) # {}

\* C3: a successful Secure authorization writes '1' when ensure_key made the
\* key in that attempt and '2' when the key existed; the successful
\* authorization after one that made the key finds it and writes '2'.
C3_FirstThenSecond ==
  \A i \in 1 .. Len(authLog) :
    authLog[i].security = Secure =>
      /\ authLog[i].byte = (IF authLog[i].created THEN Char1 ELSE Char2)
      /\ (authLog[i].created /\ i < Len(authLog)) =>
           ~authLog[i + 1].created /\ authLog[i + 1].byte = Char2

C3_Witness ==
  /\ Len(authLog) >= 2
  /\ authLog[1].security = Secure /\ authLog[1].created /\ authLog[1].byte = Char1
  /\ authLog[2].byte = Char2

\* C4 as stated: a device whose own level is None is authorized without any
\* I/O, whatever level the manager reports.
C4_AsStated ==
  \A p \in procs : devSecurity = "none" => st[p].trace = <<>>

\* C4 (amended): when the level the manager reports is None (below 1),
\* tb_device_authorize returns success without opening the directory, without
\* any call on unique_id, key or authorized and without the Key Store; the
\* level the device record reports is not consulted.
C4_NoneIsNoOp ==
  \A p \in procs :
    mgrSecurity = None =>
      /\ st[p].trace = <<>>
      /\ st[p].fds = NoFds
      /\ ~hasKey
      /\ Returned(p) => st[p].ok

C4_Witness ==
  \E p \in procs : mgrSecurity = None /\ devSecurity = "secure" /\ Returned(p) /\ st[p].ok

\* C5 as stated (its general part): the byte written to authorized is the
\* grant code of the level, '1' for User and '2' for Secure.
C5_AsStated ==
  \A p \in procs :
    \A i \in Grants(st[p].trace) :
      st[p].trace[i].data = (IF mgrSecurity = Secure THEN Char2 ELSE Char1)

\* C5 (amended): at level User, with unique_id equal to uid and every call
\* succeeding, the attempt succeeds, provisions no key and writes exactly one
\* byte to authorized, the character '1'; in general the byte written is the
\* character '1' or '2': '2' at level Secure with a key that existed, '1' at
\* level User and at level Secure with a key made in this attempt.
C5_UserWritesChar1 ==
  \A p \in procs :
    LET tr == st[p].trace
    IN  /\ (mgrSecurity = User /\ Returned(p) /\ st[p].live = "equal" /\ AllOk(tr)) =>
             /\ st[p].ok
             /\ ~Touches(tr, {"key", "keyfile", "store"})
             /\ Cardinality({i \in 1 .. Len(tr) : tr[i].op = "write"}) = 1
             /\ \E i \in Grants(tr) : tr[i].count = 1 /\ tr[i].data = Char1
        /\ \A i \in Grants(tr) :
             tr[i].data = (IF mgrSecurity = Secure /\ ~st[p].created THEN Char2 ELSE Char1)

C5_Witness ==
  \E p \in procs :
    mgrSecurity = User /\ Returned(p) /\ st[p].live = "equal" /\ AllOk(st[p].trace) /\ st[p].ok

\* a call of the trace failed or fell short (an interrupted call is retried)
Failed(tr) == \E i \in 1 .. Len(tr) : tr[i].result \notin {"ok", "EINTR"}

\* the attempt of p went through every step: nothing to do, or unique_id
\* verified, the key delivered where needed, the grant written and closed
Completed(p) ==
  LET tr == st[p].trace
  IN  \/ mgrSecurity = None
      \/ /\ ~Failed(tr)
         /\ st[p].live \in {"equal", "longer_prefix"}
         /\ Grants(tr) # {}
         /\ tr[Len(tr)].op = "close" /\ tr[Len(tr)].obj = "authorized"

\* C6: once an attempt has returned, status is Authorized exactly when the
\* attempt went through every step, and AuthError when it failed at any of
\* them; status is Authorized only after a successful run of the engine.
C6_StatusFollowsOutcome ==
  /\ \A p \in procs :
       Returned(p) =>
         /\ status = "authorized" <=> Completed(p)
         /\ ~Completed(p) => status = "autherror"
  /\ status = "authorized" => authLog # <<>>

C6_Witness ==
  \E p \in procs :
    Returned(p) /\ status = "autherror" /\ Grants(st[p].trace) # {} /\ authLog # <<>>

\* C7: the auto command runs the engine only for a device that is in the
\* store with policy Auto; for a looked-up device that is not, it exits with
\* status 0 without any I/O, and leaves status and the stored policy alone.
C7_AutoOnlyByPolicy ==
  /\ [](\A p \in procs :
          (st[p].cmd = "auto" /\ st[p].found) =>
            \/ st[p].in_store /\ st[p].policy = "auto"
            \/ /\ st[p].pc = "exited" /\ st[p].res = EXIT_SUCCESS
               /\ ~st[p].engine /\ st[p].trace = <<>>)
  /\ [][\A p \in procs :
          (st[p].pc = "auto_device" /\ st'[p].pc = "exited") =>
            /\ status' = status /\ stored' = stored
            /\ st'[p].found => st'[p].policy = LookupPolicy]_vars

C7_Witness ==
  \E p \in procs :
    /\ st[p].pc = "exited" /\ st[p].cmd = "auto" /\ st[p].found
    /\ st[p].in_store /\ st[p].policy = "manual" /\ st[p].res = EXIT_SUCCESS
    /\ status = "authorized"

\* C8 as stated: when an attempt returns, every descriptor it opened is closed.
C8_AsStated ==
  \A p \in procs : Returned(p) => st[p].fds = NoFds

\* a step of key provisioning failed
ProvisioningFailed(tr) ==
  \E i \in 1 .. Len(tr) :
    \/ tr[i].obj \in {"store", "key", "keyfile"} /\ tr[i].result \notin {"ok", "EINTR"}
    \/ tr[i].op = "read" /\ tr[i].obj = "keyfile" /\ tr[i].result = "ok" /\ tr[i].count = 0

\* C9: when key provisioning fails at any point, the attempt returns failure
\* and authorized is neither opened nor written; when ensure_key itself
\* fails, the key attribute is neither opened nor written.
C9_NoGrantAfterKeyFailure ==
  \A p \in procs :
    LET tr == st[p].trace
    IN  /\ ProvisioningFailed(tr) =>
             /\ ~Touches(tr, {"authorized"})
             /\ st[p].pc \in {"copy_key_failed", "authorize_ret", "auto_ret"}
             /\ Returned(p) => ~st[p].ok
        /\ (\E i \in 1 .. Len(tr) : tr[i].obj = "store" /\ tr[i].result # "ok") =>
             ~Touches(tr, {"key", "keyfile"})

C9_Witness ==
  \E p \in procs :
    /\ Returned(p) /\ ~st[p].ok
    /\ \E i \in 1 .. Len(st[p].trace) :
         st[p].trace[i].obj = "key" /\ st[p].trace[i].result = "partial"

\* the kinds (domain and code) an operating-system failure is reported with
OsErrorKinds == {<<"G_IO_ERROR", g_io_error_from_errno(e)>> : e \in Errnos}

\* C10 as stated: an identity mismatch, a short read of unique_id included,
\* is reported with a kind no operating-system failure is reported with.
C10_AsStated ==
  \A p \in procs :
    st[p].error.site \in {"short", "mismatch"} =>
      <<st[p].error.domain, st[p].error.code>> \notin OsErrorKinds

\* the attempt of p is between its directory open and its return
InAttempt(p) ==
  st[p].pc \in {"open_unique_id", "verify_uid", "close_uid_failed", "close_uid",
                "ensure_key", "open_key", "copy_key", "tb_read_all",
                "copy_key_write", "copy_key_failed", "close_key",
                "open_authorized", "write_authorized",
                "close_authorized_failed", "close_authorized"}

\* C11 as stated: two attempts for the same uid never overlap; while one is
\* between its directory open and its return, no other is there too, so the
\* key and grant writes of two attempts are never interleaved.
C11_AsStated ==
  \A p, q \in procs : p # q => ~(InAttempt(p) /\ InAttempt(q))

\* the process runs with real and effective uid 0
IsRoot(p) == st[p].getuid = 0 /\ st[p].geteuid = 0

\* C12: no manager is created and no lookup, authorization or store is done
\* unless real and effective uid are both 0; a run that fails (arguments,
\* privilege, unknown command, lookup, authorization, store) exits non-zero;
\* exit status 0 means the command completed or auto declined by policy.
C12_RootOnlyAndExitStatus ==
  /\ [](\A p \in procs :
          LET s == st[p]
          IN  /\ (s.pc \notin {"idle", "main", "exited"} \/ s.found \/ s.engine) => IsRoot(p)
              /\ s.pc = "exited" =>
                    /\ s.res # -1
                    /\ (~s.found \/ (s.engine /\ ~s.ok)) => s.res # EXIT_SUCCESS
                    /\ s.res = EXIT_SUCCESS =>
                          /\ IsRoot(p)
                          /\ \/ s.engine /\ s.ok
                             \/ /\ s.cmd = "auto" /\ s.found /\ ~s.engine
                                /\ ~(s.in_store /\ s.policy = "auto"))
  /\ [][\A p \in procs :
          /\ stored' # stored /\ st'[p] # st[p] => IsRoot(p)
          /\ (st[p].pc = "authorize_ret" /\ st'[p].pc = "exited" /\ st'[p].do_store) =>
                /\ st'[p].res \in {EXIT_SUCCESS, EXIT_FAILURE}
                /\ st'[p].res = EXIT_SUCCESS => stored' = st'[p].policy
                /\ st'[p].res = EXIT_FAILURE => stored' = stored]_vars

C12_Witness ==
  \E p \in procs :
    /\ st[p].pc = "exited" /\ st[p].res = EXIT_FAILURE
    /\ st[p].engine /\ st[p].ok /\ st[p].do_store /\ stored = "absent"

\* the place of a call in the protocol
StepRank(e) ==
  CASE e.op = "opendir" -> 1
    [] e.op = "open" /\ e.obj = "unique_id" -> 2
    [] e.op = "read" /\ e.obj = "unique_id" -> 3
    [] e.op = "close" /\ e.obj = "unique_id" -> 4
    [] e.op = "ensure_key" -> 5
    [] e.op = "open" /\ e.obj = "key" -> 6
    [] e.op = "open" /\ e.obj = "keyfile" -> 7
    [] e.op = "read" /\ e.obj = "keyfile" -> 8
    [] e.op = "write" /\ e.obj = "key" -> 9
    [] e.op = "close" /\ e.obj = "key" -> 10
    [] e.op = "open" /\ e.obj = "authorized" -> 11
    [] e.op = "write" /\ e.obj = "authorized" -> 12
    [] e.op = "close" /\ e.obj = "authorized" -> 13
    [] OTHER -> 0

\* call i of the attempt of s is a step that failed: the call reported an
\* error or did less than asked, the key file ended early, unique_id is not
\* the one of the device, or the key was not written whole
StepFailed(s, i) ==
  LET e == s.trace[i]
  IN  \/ e.result \notin {"ok", "EINTR"}
      \/ e.op = "read" /\ e.obj = "keyfile" /\ e.result = "ok" /\ e.count = 0
      \/ e.op = "read" /\ e.obj = "unique_id" /\ e.result = "ok"
           /\ s.live \notin {"equal", "longer_prefix"}
      \/ e.op = "write" /\ e.obj = "key" /\ e.result = "ok" /\ e.count # TB_KEY_CHARS

\* call i goes on with the same step: it was interrupted, or it is a read of
\* tb_read_all that brought a part of the key
SameStepGoesOn(e) ==
  \/ e.result = "EINTR"
  \/ e.op = "read" /\ e.obj = "keyfile" /\ e.result = "ok" /\ e.count > 0

\* C13: the calls of an attempt follow the fixed order (directory, unique_id,
\* for Secure ensure_key and the key, authorized); after a failed step only
\* descriptors are closed and the attempt returns; unique_id, key and
\* authorized are opened at most once; no attribute is written again after
\* it was written.
C13_FixedOrder ==
  \A p \in procs :
    LET s == st[p]
        tr == s.trace
    IN  /\ tr # <<>> => tr[1].op = "opendir"
        /\ \A i \in 1 .. Len(tr) : StepRank(tr[i]) # 0
        /\ \A i \in 1 .. Len(tr) - 1 :
              \/ StepRank(tr[i]) < StepRank(tr[i + 1])
              \/ StepRank(tr[i]) = StepRank(tr[i + 1]) /\ SameStepGoesOn(tr[i])
        /\ \A i \in 1 .. Len(tr) :
              StepFailed(s, i) =>
                /\ \A j \in i + 1 .. Len(tr) : tr[j].op = "close"
                /\ s.pc \in {"close_uid_failed", "copy_key_failed",
                              "close_authorized_failed", "authorize_ret", "auto_ret"}
                /\ Returned(p) => ~s.ok
        /\ \A a \in {"unique_id", "key", "authorized"} :
              /\ Cardinality({i \in 1 .. Len(tr) : tr[i].op = "open" /\ tr[i].obj = a}) <= 1
              /\ Cardinality({i \in 1 .. Len(tr) : tr[i].op = "write" /\ tr[i].obj = a
                                                     /\ tr[i].result \in {"ok", "partial"}}) <= 1
        /\ Touches(tr, {"key", "keyfile", "store"}) => IsSecure(mgrSecurity)

C13_Witness ==
  \E p \in procs :
    /\ Returned(p) /\ st[p].ok /\ Len(st[p].trace) = 13
    /\ \A i \in 1 .. 13 : StepRank(st[p].trace[i]) = i

\* the writes the attempt issued on the key attribute
KeyWrites(tr) == {i \in 1 .. Len(tr) : tr[i].op = "write" /\ tr[i].obj = "key"}

\* C14: the key goes to the key attribute in one write of the whole key;
\* the write is issued again only after EINTR (nothing written); a short
\* write or any other error makes copy_key fail with no further write, so
\* the attribute never receives the key in more than one chunk.
C14_SingleKeyWrite ==
  \A p \in procs :
    LET s == st[p]
        tr == s.trace
    IN  /\ \A i, j \in KeyWrites(tr) : i < j => tr[i].result = "EINTR" /\ tr[i].count = -1
        /\ Cardinality({i \in KeyWrites(tr) : tr[i].count >= 0}) <= 1
        /\ \A i \in KeyWrites(tr) :
              /\ tr[i].result = "ok" <=> tr[i].count = TB_KEY_CHARS
              /\ tr[i].result \notin {"ok", "EINTR"} =>
                    /\ s.pc \in {"copy_key_failed", "authorize_ret", "auto_ret"}
                    /\ s.error # NoError
                    /\ Returned(p) => ~s.ok

C14_Witness ==
  \E p \in procs :
    /\ Returned(p) /\ ~st[p].ok
    /\ \E i, j \in KeyWrites(st[p].trace) :
         /\ i < j
         /\ st[p].trace[i].result = "EINTR"
         /\ st[p].trace[j].result = "partial" /\ st[p].trace[j].count > 0

\* the bytes the reads of the key file brought into the buffer
RECURSIVE BytesRead(_)
BytesRead(tr) ==
  IF tr = <<>> THEN 0
  ELSE LET e == tr[Len(tr)]
       IN  BytesRead(SubSeq(tr, 1, Len(tr) - 1))
             + (IF e.op = "read" /\ e.obj = "keyfile" /\ e.result = "ok" THEN e.count ELSE 0)

\* tb_read_all has returned in the attempt of s; s.n is its result
ReadAllReturned(s) ==
  /\ s.pc # "tb_read_all"
  /\ \E i \in 1 .. Len(s.trace) : s.trace[i].op = "read" /\ s.trace[i].obj = "keyfile"

\* C15: tb_read_all returns the number of bytes it brought into the buffer,
\* which is the length asked for exactly when the file held that many, and
\* a negative value after a read error other than EINTR; copy_key fails on
\* every result but the full key length and then writes nothing to key.
C15_ReadAllResult ==
  \A p \in procs :
    LET s == st[p]
        tr == s.trace
        held == s.nread + s.avail
    IN  ReadAllReturned(s) =>
          /\ IF \E i \in 1 .. Len(tr) : tr[i].obj = "keyfile" /\ tr[i].result \in Errnos
             THEN s.n < 0
             ELSE /\ s.n = BytesRead(tr)
                  /\ s.n = TB_KEY_CHARS <=> held >= TB_KEY_CHARS
                  /\ s.n < TB_KEY_CHARS => s.n = held
          /\ s.n # TB_KEY_CHARS =>
                /\ KeyWrites(tr) = {}
                /\ s.error # NoError
                /\ s.pc \in {"copy_key_failed", "authorize_ret", "auto_ret"}
                /\ Returned(p) => ~s.ok

C15_Witness ==
  \E p \in procs :
    /\ Returned(p) /\ ~st[p].ok /\ st[p].n > 0 /\ st[p].n < TB_KEY_CHARS
    /\ \E i \in 1 .. Len(st[p].trace) : st[p].trace[i].result = "EINTR" /\ st[p].trace[i].obj = "keyfile"

\* C16: authorize runs the engine for every device the lookup found,
\* whatever its policy and whether or not it is stored; the policy is set to
\* Auto and the device is stored only after the engine succeeded; --auto
\* implies storing; a failed store exits non-zero and leaves the grant.
C16_StoreOnlyAfterSuccess ==
  /\ [](\A p \in procs :
          (st[p].cmd = "authorize" /\ st[p].found) =>
            (st[p].engine \/ st[p].pc = "tb_device_authorize"))
  /\ [][/\ stored' # stored =>
            \E p \in procs : st[p].pc = "authorize_ret" /\ st[p].ok /\ st'[p].pc = "exited"
        /\ \A p \in procs :
             (st[p].pc = "authorize_ret" /\ st'[p].pc = "exited") =>
               /\ status' = status /\ authLog' = authLog /\ hasKey' = hasKey
               /\ ~st[p].ok =>
                     /\ stored' = stored
                     /\ st'[p].policy = st[p].policy
                     /\ st'[p].res # EXIT_SUCCESS
               /\ st'[p].do_auto => st'[p].do_store /\ st'[p].policy = "auto"
               /\ st'[p].do_store =>
                     \/ st'[p].res = EXIT_SUCCESS /\ stored' = st'[p].policy
                     \/ st'[p].res = EXIT_FAILURE /\ stored' = stored
               /\ (st[p].ok /\ ~st'[p].do_store) =>
                     st'[p].res = EXIT_SUCCESS /\ stored' = stored]_vars

C16_Witness ==
  \E p \in procs :
    /\ st[p].pc = "exited" /\ st[p].cmd = "authorize" /\ st[p].ok
    /\ st[p].do_auto /\ st[p].res = EXIT_FAILURE
    /\ ~st[p].in_store /\ stored = "absent"
    /\ status = "authorized" /\ authLog # <<>> /\ authLog[Len(authLog)].byte # 0

\* C17: there is no shortcut for a device that is authorized already: at a
\* level other than None every attempt, the ones after a successful attempt
\* included, opens the directory, and returns success only after it read and
\* verified unique_id and wrote the grant byte.
C17_NoShortcut ==
  \A p \in procs :
    LET s == st[p]
    IN  (s.engine /\ s.pc # "exited" /\ mgrSecurity # None) =>
          /\ s.pc = "opendir" \/ s.trace # <<>>
          /\ (Returned(p) /\ s.ok) =>
                /\ s.trace[1] = Ev("opendir", "dir", "ok", 0, 0)
                /\ \E i \in 1 .. Len(s.trace) :
                     /\ s.trace[i].op = "read" /\ s.trace[i].obj = "unique_id"
                     /\ s.trace[i].result = "ok" /\ s.trace[i].count = Len(uid)
                /\ s.live \in {"equal", "longer_prefix"}
                /\ Grants(s.trace) # {}

C17_Witness ==
  \E p \in procs :
    /\ Returned(p) /\ st[p].ok /\ Grants(st[p].trace) # {}
    /\ Len(authLog) >= 2
    /\ \A i \in 1 .. Len(authLog) : authLog[i].byte # 0

\* C18 as stated: whenever tb_device_authorize has returned failure an error
\* is set for the caller, a write of 0 bytes to authorized included, so the
\* report of a failed authorization never reads an unset error.
C18_AsStated ==
  \A p \in procs : (Returned(p) /\ ~st[p].ok) => st[p].error # NoError

\* the call that gave the variable fd its value: the last successful open
\* of unique_id or authorized, 0 if there was none
FdAssigned(tr) ==
  LET opens == {i \in 1 .. Len(tr) : /\ tr[i].op = "open" /\ tr[i].result = "ok"
                                      /\ tr[i].obj \in {"unique_id", "authorized"}}
  IN  IF opens = {} THEN 0 ELSE CHOOSE i \in opens : \A j \in opens : j <= i

\* descriptor number n was closed after call i
ClosedSince(tr, i, n) ==
  \E j \in i + 1 .. Len(tr) : tr[j].op = "close" /\ tr[j].count = n

\* C19 as stated: close is called only on a descriptor the attempt holds
\* open; no descriptor is closed twice, and no number that was closed
\* already (and may have been given out again) is closed again, the failure
\* of copy_key included.
C19_AsStated ==
  \A p \in procs :
    LET s == st[p]
    IN  /\ s.pc \in {"close_uid_failed", "close_uid", "copy_key_failed",
                      "close_authorized_failed", "close_authorized"} =>
              /\ FdAssigned(s.trace) # 0
              /\ FdIsOpen(s.fds, s.fd)
              /\ ~ClosedSince(s.trace, FdAssigned(s.trace), s.fd)
        /\ s.pc = "close_key" =>
              /\ FdIsOpen(s.fds, s.keyfd)
              /\ s.fds[s.keyfd] = "key"

\* how far the position of an attempt is from its return
PcRank(pc) ==
  CASE pc = "tb_device_authorize" -> 16
    [] pc = "opendir" -> 15
    [] pc = "open_unique_id" -> 14
    [] pc = "verify_uid" -> 13
    [] pc = "close_uid" -> 12
    [] pc = "ensure_key" -> 11
    [] pc = "open_key" -> 10
    [] pc = "copy_key" -> 9
    [] pc = "tb_read_all" -> 8
    [] pc = "copy_key_write" -> 7
    [] pc = "close_key" -> 6
    [] pc = "open_authorized" -> 5
    [] pc = "write_authorized" -> 4
    [] pc = "close_authorized" -> 3
    [] pc \in {"close_uid_failed", "copy_key_failed", "close_authorized_failed"} -> 1
    [] OTHER -> 0

\* a bound on the calls the attempt of s can still make: the steps ahead,
\* the bytes tb_read_all still asks for, the interruptions still to come
Measure(s) ==
  PcRank(s.pc) * (TB_KEY_CHARS + 2) * (MaxEintr + 1)
    + (IF s.pc = "tb_read_all" THEN s.nbyte ELSE 0) * (MaxEintr + 1)
    + (MaxEintr - s.eintr)

\* C20: every attempt returns, each call being interrupted only finitely
\* often: a call is repeated only after EINTR or, in tb_read_all, after a
\* read that brought bytes and shrank the length still asked for; every step
\* of an attempt brings it nearer to its return.
C20_Terminates ==
  /\ [](\A p \in procs :
          LET tr == st[p].trace
          IN  \A i \in 1 .. Len(tr) - 1 :
                (tr[i].op = tr[i + 1].op /\ tr[i].obj = tr[i + 1].obj) => SameStepGoesOn(tr[i]))
  /\ [][\A p \in procs :
          (PcRank(st[p].pc) > 0 /\ st'[p] # st[p]) =>
            /\ Measure(st'[p]) < Measure(st[p])
            /\ Measure(st'[p]) >= 0]_vars
  /\ \A p \in Procs : (st[p].pc = "tb_device_authorize") ~> Returned(p)

C20_Witness ==
  \E p \in procs :
    /\ Returned(p)
    /\ st[p].eintr = MaxEintr
    /\ Cardinality({i \in 1 .. Len(st[p].trace) :
                      /\ st[p].trace[i].op = "read" /\ st[p].trace[i].obj = "keyfile"
                      /\ st[p].trace[i].count > 0}) >= 2

====
